---- MODULE Spec2Model ----
(***************************************************************************)
(* Model of the RAPID emergency-call API server (src/app.py) on the path   *)
(* where the optional `broadcaster` package is not installed, i.e. the     *)
(* in-repository MockBroadcaster / Broadcast classes are the event bus.    *)
(*                                                                         *)
(* The server runs on one asyncio event loop: code between two points      *)
(* where a coroutine really suspends runs atomically.  `await queue.put`   *)
(* on an unbounded asyncio.Queue never suspends, so a handler runs from    *)
(* the return of `await request.form()` to its `return` in one step.       *)
(*                                                                         *)
(* Python values are tagged records [t, v]; JSON text is the sequence of   *)
(* its lexemes.  Floats are written in tenths (7 stands for 0.7).          *)
(*                                                                         *)
(* The offline scripts data_preparation.py and finetune_model.py are       *)
(* modelled next to the server: fs holds the files they read and write,    *)
(* proc their runs.  The server never touches either.                      *)
(***************************************************************************)
EXTENDS Integers, Sequences, FiniteSets, TLC

\* ---------------------------------------------------------------- bounds
MaxRequests == 2        \* webhook requests received in one run
MaxPublished == 3       \* direct publish calls in one run of the bus
MaxSubscriptions == 2   \* subscribe() generators created in one run
MaxConnections == 1     \* /ws connections opened in one run
MaxItems == 3           \* processed items up to which every shuffle is tried

\* the larger numbers of processed items tried
LargeSizes == {10, 11}
Sizes == (0..MaxItems) \cup LargeSizes

\* ------------------------------------------------------- python values
Str(s) == [t |-> "str", v |-> s]
Num(n) == [t |-> "num", v |-> n]
List(xs) == [t |-> "list", v |-> xs]
Dict(ms) == [t |-> "dict", v |-> ms]
Member(key, val) == [k |-> key, val |-> val]

Keys(d) == {d.v[i].k : i \in 1..Len(d.v)}

HasKey(d, key) == key \in Keys(d)

DictGet(d, key) == d.v[CHOOSE i \in 1..Len(d.v) : d.v[i].k = key].val

\* d[key] = val on an insertion-ordered dict: overwrite in place or append
DictSet(d, key, val) ==
    IF HasKey(d, key)
    THEN Dict([i \in 1..Len(d.v) |->
                 IF d.v[i].k = key THEN Member(key, val) ELSE d.v[i]])
    ELSE Dict(Append(d.v, Member(key, val)))

\* {**d, **e}: the keys of d keep their place and take the value e has
\* for them, the other keys of e follow in the order of e
DictMerge(d, e) ==
    Dict([i \in 1..Len(d.v) |->
             IF HasKey(e, d.v[i].k)
             THEN Member(d.v[i].k, DictGet(e, d.v[i].k))
             ELSE d.v[i]]
         \o SelectSeq(e.v, LAMBDA m : ~HasKey(d, m.k)))

\* ------------------------------------------------------------ json text
\* a JSON text is the sequence of its lexemes: the punctuation, the quotes
\* around a string and what is between them, the digits of a number
Quote == "\""

RECURSIVE json_dumps(_), dumps_items(_, _), dumps_members(_, _)
json_dumps(x) ==
    CASE x.t = "str"  -> <<Quote, x.v, Quote>>
      [] x.t = "num"  -> <<ToString(x.v)>>
      [] x.t = "list" -> <<"[">> \o dumps_items(x.v, 1) \o <<"]">>
      [] x.t = "dict" -> <<"{">> \o dumps_members(x.v, 1) \o <<"}">>

\* variant: the items of a list are written last to first
dumps_items_reversed(xs, i) ==
    IF i > Len(xs) THEN <<>>
    ELSE (IF i > 1 THEN <<",">> ELSE <<>>)
         \o json_dumps(xs[Len(xs) + 1 - i]) \o dumps_items(xs, i + 1)

dumps_items(xs, i) ==
    IF i > Len(xs) THEN <<>>
    ELSE (IF i > 1 THEN <<",">> ELSE <<>>)
         \o json_dumps(xs[i]) \o dumps_items(xs, i + 1)

dumps_members(ms, i) ==
    IF i > Len(ms) THEN <<>>
    ELSE (IF i > 1 THEN <<",">> ELSE <<>>)
         \o <<Quote, ms[i].k, Quote, ":">>
         \o json_dumps(ms[i].val) \o dumps_members(ms, i + 1)

\* json.loads, by which the properties below read a published text back;
\* each parse_* returns the value read and the index of the next lexeme
parse_number(lexeme) == CHOOSE n \in 0..99 : ToString(n) = lexeme

RECURSIVE parse_value(_, _), parse_items(_, _, _), parse_members(_, _, _)
parse_value(toks, i) ==
    CASE toks[i] = Quote -> [val |-> Str(toks[i + 1]), next |-> i + 3]
      [] toks[i] = "[" ->
            IF toks[i + 1] = "]"
            THEN [val |-> List(<<>>), next |-> i + 2]
            ELSE parse_items(toks, i + 1, <<>>)
      [] toks[i] = "{" ->
            IF toks[i + 1] = "}"
            THEN [val |-> Dict(<<>>), next |-> i + 2]
            ELSE parse_members(toks, i, Dict(<<>>))
      [] OTHER -> [val |-> Num(parse_number(toks[i])), next |-> i + 1]

parse_items(toks, i, acc) ==
    LET r == parse_value(toks, i)
        acc2 == Append(acc, r.val)
    IN  IF toks[r.next] = ","
        THEN parse_items(toks, r.next + 1, acc2)
        ELSE [val |-> List(acc2), next |-> r.next + 1]

\* toks[i] is the "{" or the "," before a member: quote, key, quote, colon
parse_members(toks, i, acc) ==
    LET r == parse_value(toks, i + 5)
        acc2 == DictSet(acc, toks[i + 2], r.val)
    IN  IF toks[r.next] = ","
        THEN parse_members(toks, r.next, acc2)
        ELSE [val |-> acc2, next |-> r.next + 1]

json_loads(toks) == parse_value(toks, 1).val


\* --------------------------------------------------- process-wide setup
Channels == {"calls", "transcripts", "responses"}

\* optional packages whose absence selects a stub stage adapter; `broadcaster`
\* is absent throughout (the bus is MockBroadcaster)
StagePackages == {"openai-whisper", "transformers", "torch", "hume"}

RequestIds == 1..MaxRequests
SubscriptionIds == 1..MaxSubscriptions
ConnectionIds == 1..MaxConnections

Absent == "<absent>"
FieldNames == {"CallSid", "RecordingSid", "RecordingUrl", "Transcript"}
Kinds == {"call", "recording", "response"}

FieldsOf(kind) ==
    CASE kind = "call"      -> {"CallSid"}
      [] kind = "recording" -> {"RecordingSid", "CallSid", "RecordingUrl"}
      [] kind = "response"  -> {"CallSid", "Transcript"}

ValueOf(field) ==
    CASE field = "CallSid"      -> "CA1"
      [] field = "RecordingSid" -> "RE1"
      [] field = "RecordingUrl" -> "https://api.twilio.com/RE1.mp3"
      [] field = "Transcript"   -> "Help, there is a fire"

FullBody(kind, call_sid) ==
    [f \in FieldNames |->
        IF f \notin FieldsOf(kind) THEN Absent
        ELSE IF f = "CallSid" THEN call_sid ELSE ValueOf(f)]

\* the request bodies tried for a webhook: every field present (two call
\* ids), or exactly one field of the webhook left out
Bodies(kind) ==
    {FullBody(kind, c) : c \in {"CA1", "CA2"}}
    \cup {[FullBody(kind, "CA1") EXCEPT ![f] = Absent] : f \in FieldsOf(kind)}

NoResponse == [status |-> 0, body |-> Dict(<<>>)]
\* raises: the stage whose adapter call raises while this request is handled,
\* or "publish" when broadcast.publish raises
NoRequest ==
    [pc |-> "none", kind |-> "call", body |-> FullBody("call", Absent),
     body_kind |-> "form", raises |-> "none", during |-> {},
     response |-> NoResponse]
NoGenerator == [pc |-> "none", since |-> 0, closed_at |-> 0]
NoConnection ==
    [pc |-> "none", accepted |-> FALSE, error |-> "", channels |-> {}]

VARIABLES
    missing_optional,  \* optional packages found missing at import time
    app_state,         \* "created", "running" (after startup), "shutdown"
    subscribers,       \* MockBroadcaster.subscribers: the queues, by generator
    queue,             \* the asyncio.Queue of each subscribe() generator
    gen,               \* each subscribe() generator: where it is suspended, and
                       \* how many messages had been published when it
                       \* subscribed (since) or when it ended (closed_at)
    received,          \* what the consumer of each generator was yielded
    req,               \* the webhook requests and their handler coroutines;
                       \* during: the requests in flight when this one came
    ws,                \* the /ws connections and their endpoint coroutines
    sent,              \* text frames sent on each /ws connection
    published,         \* every (channel, message) handed to publish so far
    fs,                \* the files the offline scripts read and write
    proc               \* the runs of data_preparation.py and finetune_model.py

\* the state of the offline scripts, which the server never touches
offline == <<fs, proc>>

vars == <<missing_optional, app_state, subscribers, queue, gen, received,
          req, ws, sent, published, fs, proc>>

\* ------------------------------------------------------- stage adapters
MockASR_transcribe(audio_file) ==
    Str("This is a mock transcription for testing purposes.")

MockLLM_generate(transcript) ==
    Dict(<<Member("emergency_type", Str("Medical")),
           Member("priority", Str("High")),
           Member("location", Str("123 Main St")),
           Member("caller_name", Str("John Doe")),
           Member("summary", Str("Mock emergency call for testing purposes")),
           Member("recommended_actions",
                  List(<<Str("Dispatch ambulance"), Str("Notify hospital")>>))>>)

MockEmotionAnalysis_analyze(transcript) ==
    Dict(<<Member("emotions",
                  Dict(<<Member("fear", Num(7)), Member("distress", Num(8)),
                         Member("anxiety", Num(6)), Member("calm", Num(2))>>)),
           Member("sentiment", Str("negative")),
           Member("urgency", Str("high"))>>)

asr_service ==
    IF "openai-whisper" \in missing_optional THEN "MockASR" ELSE "None"
llm_service ==
    IF "transformers" \in missing_optional \/ "torch" \in missing_optional
    THEN "MockLLM" ELSE "None"
emotion_service ==
    IF "hume" \in missing_optional THEN "MockEmotionAnalysis" ELSE "None"

\* truth value of a service object: None is false, an instance is true
Truthy(service) == service # "None"


\* ------------------------------------------------------- MockBroadcaster
\* asyncio.Queue() is built with the default maxsize 0: never full
maxsize == 0

\* variant: a queue that holds one message (asyncio.Queue(maxsize=1))
full_at_one(q) == Len(q) >= 1

\* variant: a queue that holds two messages (asyncio.Queue(maxsize=2))
full_at_two(q) == Len(q) >= 2

full(q) == maxsize > 0 /\ Len(q) >= maxsize

\* `await queue.put(...)` returns without suspending unless the queue is full
PutBlocks == \E s \in subscribers : full(queue[s])

\* the text put on the queues: a dict is serialized, a str is passed on as is
message_str(message) ==
    IF message.t = "dict" THEN json_dumps(message) ELSE message.v

\* a str that holds JSON text, as the handlers hand to publish
Text(toks) == [t |-> "text", v |-> toks]

\* variant: the loop over the subscribers stops after the first queue
Enqueue_first_only(s, text) ==
    IF s \in subscribers /\ \A t \in subscribers : s <= t
    THEN Append(queue[s], text) ELSE queue[s]

\* for queue in self.subscribers: await queue.put(message_str)
Enqueue(s, text) ==
    IF s \in subscribers THEN Append(queue[s], text) ELSE queue[s]

\* MockBroadcaster.publish through Broadcast.publish; the channel is not used
publish(channel, message) ==
    /\ ~PutBlocks
    /\ queue' = [s \in SubscriptionIds |-> Enqueue(s, message_str(message))]
    /\ published' = Append(published,
                           [channel |-> channel, message |-> message_str(message)])

\* Broadcast.subscribe is a coroutine function: calling it gives a coroutine
\* object, which is not an asynchronous context manager
Broadcast_subscribe(channel) == "coroutine"

SupportsAsyncWith(obj) == obj = "async_context_manager"

\* MockBroadcaster has no connect and no disconnect method
Broadcast_connect == "AttributeError"
Broadcast_disconnect == "AttributeError"


\* ------------------------------------------------------ webhook handlers
EmptyForm == [f \in FieldNames |-> Absent]

\* try: form_data = await request.form()  except: form_data = {}
\* (a body that is not form-encoded parses to a form without fields)
form_data(request) ==
    CASE request.body_kind = "form"       -> request.body
      [] request.body_kind = "json"       -> EmptyForm
      [] request.body_kind = "unreadable" -> EmptyForm

\* variant: form_data.get(key) without the default
form_get_no_default(form, key, default) == form[key]

\* form_data.get(key, default)
form_get(form, key, default) ==
    IF form[key] # Absent THEN form[key] ELSE default

call_sid_of(request) == form_get(form_data(request), "CallSid", "test-call-sid")

call_event(request) ==
    Dict(<<Member("event", Str("call_started")),
           Member("call_sid", Str(call_sid_of(request))),
           Member("status", Str("in-progress"))>>)

call_response(request) ==
    Dict(<<Member("call_sid", Str(call_sid_of(request))),
           Member("status", Str("in-progress")),
           Member("message", Str("Call received and being processed"))>>)

\* variant: the transcript of a delivery is appended to what earlier
\* deliveries on channel transcripts produced
recording_transcript_appended(request) ==
    LET text == IF Truthy(asr_service)
                THEN "This is a mock transcription for testing purposes."
                ELSE "This is a mock transcript for testing purposes."
    IN  IF \E i \in 1..Len(published) : published[i].channel = "transcripts"
        THEN Str(text \o " " \o text) ELSE Str(text)

recording_transcript(request) ==
    IF Truthy(asr_service)
    THEN MockASR_transcribe(form_get(form_data(request), "RecordingUrl",
                                     "https://example.com/recording.mp3"))
    ELSE Str("This is a mock transcript for testing purposes.")

default_emotions == Dict(<<Member("fear", Num(7)), Member("distress", Num(8))>>)

emotions_of(transcript) ==
    IF Truthy(emotion_service)
    THEN MockEmotionAnalysis_analyze(transcript)
    ELSE default_emotions

recording_analysis(request) ==
    Dict(<<Member("emotions", emotions_of(recording_transcript(request))),
           Member("call_sid", Str(call_sid_of(request)))>>)

\* variant: the event carries an analysis made anew, without the adapter
recording_event_own_analysis(request) ==
    Dict(<<Member("event", Str("new_transcript")),
           Member("call_sid", Str(call_sid_of(request))),
           Member("transcript", recording_transcript(request)),
           Member("analysis",
                  Dict(<<Member("emotions", default_emotions),
                         Member("call_sid", Str(call_sid_of(request)))>>))>>)

recording_event(request) ==
    Dict(<<Member("event", Str("new_transcript")),
           Member("call_sid", Str(call_sid_of(request))),
           Member("transcript", recording_transcript(request)),
           Member("analysis", recording_analysis(request))>>)

recording_response(request) ==
    Dict(<<Member("recording_sid",
                  Str(form_get(form_data(request), "RecordingSid",
                               "test-recording-sid"))),
           Member("call_sid", Str(call_sid_of(request))),
           Member("status", Str("processed")),
           Member("transcript", recording_transcript(request)),
           Member("analysis", recording_analysis(request))>>)

response_transcript(request) ==
    Str(form_get(form_data(request), "Transcript", "Mock transcript"))

triage_result(request) ==
    IF Truthy(llm_service)
    THEN MockLLM_generate(response_transcript(request))
    ELSE Dict(<<Member("emergency_type", Str("Medical")),
                Member("priority", Str("High")),
                Member("location", Str("123 Main St")),
                Member("caller_name", Str("John Doe")),
                Member("summary", Str("Mock emergency call for testing purposes")),
                Member("recommended_actions",
                       List(<<Str("Dispatch ambulance"), Str("Notify hospital")>>))>>)

\* {"call_sid": call_sid, **triage_result, "emotions": emotions}
response_response(request) ==
    DictSet(DictMerge(Dict(<<Member("call_sid", Str(call_sid_of(request)))>>),
                      triage_result(request)),
            "emotions", emotions_of(response_transcript(request)))

\* {"event": "new_response", "call_sid": call_sid, **triage_result, "emotions": ...}
response_event(request) ==
    DictSet(DictMerge(Dict(<<Member("event", Str("new_response")),
                             Member("call_sid", Str(call_sid_of(request)))>>),
                      triage_result(request)),
            "emotions", emotions_of(response_transcript(request)))

\* variant: the exception of publish is not caught and the framework answers 500
Returned_unless_publish_raised(request, body) ==
    [request EXCEPT !.pc = "done",
                    !.response = IF request.raises = "publish"
                                 THEN [status |-> 500, body |-> Dict(<<>>)]
                                 ELSE [status |-> 200, body |-> body]]

Returned(request, body) ==
    [request EXCEPT !.pc = "done", !.response = [status |-> 200, body |-> body]]

\* the adapter calls a handler makes, in the order of its code: a stage
\* whose service is None is not called
StageCalls(request) ==
    CASE request.kind = "call" -> <<>>
      [] request.kind = "recording" ->
            (IF Truthy(asr_service) THEN <<"asr">> ELSE <<>>)
            \o (IF Truthy(emotion_service) THEN <<"emotion">> ELSE <<>>)
      [] request.kind = "response" ->
            (IF Truthy(llm_service) THEN <<"llm">> ELSE <<>>)
            \o (IF Truthy(emotion_service) THEN <<"emotion">> ELSE <<>>)

\* variant: the stage calls are wrapped in a try that swallows the exception
Raised_swallowed(request) == "none"

\* the adapter call that raises in the handler of the request, or "none"
Raised(request) ==
    IF \E i \in 1..Len(StageCalls(request)) : StageCalls(request)[i] = request.raises
    THEN request.raises ELSE "none"

\* the adapter calls made before the handler returns or an exception leaves it
stages_run(request) ==
    IF Raised(request) = "none" THEN StageCalls(request)
    ELSE SubSeq(StageCalls(request), 1,
                CHOOSE i \in 1..Len(StageCalls(request)) :
                    StageCalls(request)[i] = request.raises)

\* the stage calls are outside every try: an exception leaves the handler
\* and the framework answers 500
Unhandled(request) ==
    [request EXCEPT !.pc = "done",
                    !.response = [status |-> 500, body |-> Dict(<<>>)]]

\* the payloads a webhook is tried with: each body form-encoded, and the
\* complete body also as JSON (requests.post(json=...)) and as a form-encoded
\* body for which request.form() raises
Payloads ==
    [kind \in Kinds |->
        {[body |-> b, body_kind |-> "form", raises |-> "none"] : b \in Bodies(kind)}
        \cup {[body |-> FullBody(kind, "CA1"), body_kind |-> k, raises |-> "none"] :
                 k \in {"json", "unreadable"}}]

\* the complete form-encoded body only
FormPayloads ==
    [kind \in Kinds |->
        {[body |-> FullBody(kind, "CA1"), body_kind |-> "form", raises |-> "none"]}]

Stages == {"asr", "llm", "emotion"}

\* the complete form-encoded body, handled while no adapter call raises or
\* while the call to the adapter of one stage raises
FaultPayloads ==
    [kind \in Kinds |->
        {[body |-> FullBody(kind, "CA1"), body_kind |-> "form", raises |-> f] :
            f \in Stages \cup {"none"}}]

\* the requests whose handler has started and not returned
InFlight == {r \in RequestIds : req[r].pc = "form"}

\* a POST is routed to its handler, which runs up to `await request.form()`
Receive(r, payloads) ==
    /\ app_state = "running"
    /\ req[r].pc = "none"
    /\ r > 1 => req[r - 1].pc # "none"
    /\ \E kind \in Kinds : \E p \in payloads[kind] :
          req' = [req EXCEPT ![r] =
                     [pc |-> "form", kind |-> kind, body |-> p.body,
                      body_kind |-> p.body_kind, raises |-> p.raises,
                      during |-> InFlight, response |-> NoResponse]]
    /\ UNCHANGED <<offline, missing_optional, app_state, subscribers, queue, gen,
                   received, ws, sent, published>>

\* try: await broadcast.publish(...)  except Exception: log a warning.
\* The bus of this model never raises; the request says whether the call
\* raises (a bus that is unreachable), and then nothing is delivered
try_publish(request, channel, message) ==
    IF request.raises = "publish"
    THEN UNCHANGED <<queue, published>>
    ELSE publish(channel, message)

handle_call(r) ==
    /\ req[r].pc = "form"
    /\ req[r].kind = "call"
    /\ try_publish(req[r], "calls", Text(json_dumps(call_event(req[r]))))
    /\ req' = [req EXCEPT ![r] = Returned(req[r], call_response(req[r]))]
    /\ UNCHANGED <<offline, missing_optional, app_state, subscribers, gen, received,
                   ws, sent>>

handle_recording(r) ==
    /\ req[r].pc = "form"
    /\ req[r].kind = "recording"
    /\ IF Raised(req[r]) # "none"
       THEN /\ req' = [req EXCEPT ![r] = Unhandled(req[r])]
            /\ UNCHANGED <<queue, published>>
       ELSE /\ try_publish(req[r], "transcripts",
                        Text(json_dumps(recording_event(req[r]))))
            /\ req' = [req EXCEPT ![r] =
                           Returned(req[r], recording_response(req[r]))]
    /\ UNCHANGED <<offline, missing_optional, app_state, subscribers, gen, received,
                   ws, sent>>

handle_response(r) ==
    /\ req[r].pc = "form"
    /\ req[r].kind = "response"
    /\ IF Raised(req[r]) # "none"
       THEN /\ req' = [req EXCEPT ![r] = Unhandled(req[r])]
            /\ UNCHANGED <<queue, published>>
       ELSE /\ try_publish(req[r], "responses",
                        Text(json_dumps(response_event(req[r]))))
            /\ req' = [req EXCEPT ![r] =
                           Returned(req[r], response_response(req[r]))]
    /\ UNCHANGED <<offline, missing_optional, app_state, subscribers, gen, received,
                   ws, sent>>

\* ----------------------------------------------------------- GET /health
optional_packages ==
    <<"python-dotenv", "twilio", "broadcaster", "pydantic", "torch",
      "transformers", "peft", "openai-whisper", "hume", "retell">>

\* os.getenv(name, default): the process environment sets none of the
\* variables the server reads
getenv(name, default) == default

\* variant: the llm entry looks at transformers only
health_services_transformers_only ==
    Dict(<<Member("asr", Str(IF "openai-whisper" \in missing_optional
                             THEN "mock" ELSE "ready")),
           Member("llm", Str(IF "transformers" \in missing_optional
                             THEN "mock" ELSE "ready")),
           Member("emotion", Str(IF "hume" \in missing_optional
                                 THEN "mock" ELSE "ready")),
           Member("api", Str("ready"))>>)

\* the "services" entry of the health report
health_services ==
    Dict(<<Member("asr", Str(IF "openai-whisper" \in missing_optional
                             THEN "mock" ELSE "ready")),
           Member("llm", Str(IF "transformers" \in missing_optional
                                \/ "torch" \in missing_optional
                             THEN "mock" ELSE "ready")),
           Member("emotion", Str(IF "hume" \in missing_optional
                                 THEN "mock" ELSE "ready")),
           Member("api", Str("ready"))>>)

health_status ==
    Dict(<<Member("status", Str("ok")),
           Member("services", health_services),
           Member("environment",
                  Dict(<<Member("twilio",
                                Str(IF getenv("TWILIO_ACCOUNT_SID", Absent) # Absent
                                       /\ getenv("TWILIO_AUTH_TOKEN", Absent) # Absent
                                    THEN "configured" ELSE "missing")),
                         Member("model_path", Str(getenv("MODEL_PATH", "not set")))>>)),
           Member("missing_packages",
                  List([i \in 1..Len(SelectSeq(optional_packages,
                                               LAMBDA p : p \in missing_optional)) |->
                           Str(SelectSeq(optional_packages,
                                         LAMBDA p : p \in missing_optional)[i])]))>>)

\* GET /health: the handler has no await and answers in one step
health_check(r) ==
    /\ app_state = "running"
    /\ req[r].pc = "none"
    /\ r > 1 => req[r - 1].pc # "none"
    /\ req' = [req EXCEPT ![r] =
                  [pc |-> "done", kind |-> "health",
                   body |-> FullBody("call", Absent), body_kind |-> "none",
                   raises |-> "none", during |-> InFlight,
                   response |-> [status |-> 200, body |-> health_status]]]
    /\ UNCHANGED <<offline, missing_optional, app_state, subscribers, queue, gen,
                   received, ws, sent, published>>

\* ------------------------------------------------------------ /ws endpoint
\* a client opens /ws: the endpoint runs up to `await websocket.accept()`
WsConnect(c) ==
    /\ app_state = "running"
    /\ ws[c].pc = "none"
    /\ c > 1 => ws[c - 1].pc # "none"
    /\ ws' = [ws EXCEPT ![c].pc = "accept"]
    /\ UNCHANGED <<offline, missing_optional, app_state, subscribers, queue, gen,
                   received, req, sent, published>>

\* after accept: `async with broadcast.subscribe(channel="calls")` raises
\* TypeError, `except Exception` logs it and the endpoint returns
websocket_endpoint(c) ==
    /\ ws[c].pc = "accept"
    /\ ~SupportsAsyncWith(Broadcast_subscribe("calls"))
    /\ ws' = [ws EXCEPT ![c] = [pc |-> "returned", accepted |-> TRUE,
                                error |-> "TypeError", channels |-> {}]]
    /\ UNCHANGED <<offline, missing_optional, app_state, subscribers, queue, gen,
                   received, req, sent, published>>

\* ---------------------------------------------------------------- lifecycle
\* try: await broadcast.connect()  except Exception: log a warning
startup ==
    /\ app_state = "created"
    /\ Broadcast_connect = "AttributeError"
    /\ app_state' = "running"
    /\ UNCHANGED <<offline, missing_optional, subscribers, queue, gen, received, req,
                   ws, sent, published>>

\* the server stops once no handler is running
shutdown ==
    /\ app_state = "running"
    /\ \A r \in RequestIds : req[r].pc # "form"
    /\ \A c \in ConnectionIds : ws[c].pc # "accept"
    /\ Broadcast_disconnect = "AttributeError"
    /\ app_state' = "shutdown"
    /\ UNCHANGED <<offline, missing_optional, subscribers, queue, gen, received, req,
                   ws, sent, published>>

\* ------------------------------------------- MockBroadcaster.subscribe
\* variant: a new subscription is handed the messages published before it
new_queue_replay == [i \in 1..Len(published) |-> published[i].message]

\* queue = asyncio.Queue(): a new, empty queue
new_queue == <<>>

\* variant: the newest message is taken first
queue_get_newest(q) == q[Len(q)]

\* queue.get(): the oldest message of the queue
queue_get(q) == Head(q)

\* variant: the queue stays in the set when the generator ends
finally_keep(s) == subscribers

\* variant: ending one generator empties the set
finally_clear(s) == {}

\* finally: self.subscribers.remove(queue)
finally_subscribers(s) == subscribers \ {s}

\* `async for event in broadcaster.subscribe(channel)`: the generator is made
\* and run to its first `await queue.get()` without a suspension in between
subscribe(s, channel) ==
    /\ gen[s].pc = "none"
    /\ s > 1 => gen[s - 1].pc # "none"
    /\ gen' = [gen EXCEPT ![s] = [pc |-> "waiting", since |-> Len(published),
                                  closed_at |-> 0]]
    /\ queue' = [queue EXCEPT ![s] = new_queue]
    /\ subscribers' = subscribers \cup {s}
    /\ UNCHANGED <<offline, missing_optional, app_state, received, req, ws, sent,
                   published>>

\* queue.get() returns the oldest message and the generator yields it
subscribe_yield(s) ==
    /\ gen[s].pc = "waiting"
    /\ queue[s] # <<>>
    /\ received' = [received EXCEPT ![s] = Append(@, queue_get(queue[s]))]
    /\ queue' = [queue EXCEPT ![s] = Tail(@)]
    /\ UNCHANGED <<offline, missing_optional, app_state, subscribers, gen, req, ws,
                   sent, published>>

\* the generator is closed or its consumer cancelled: the finally clause runs;
\* the generator, its queue and its consumer are gone afterwards
subscribe_finally(s) ==
    /\ gen[s].pc = "waiting"
    /\ subscribers' = finally_subscribers(s)
    /\ gen' = [gen EXCEPT ![s] = [pc |-> "closed", since |-> 0,
                                  closed_at |-> Len(published)]]
    /\ queue' = [queue EXCEPT ![s] = <<>>]
    /\ received' = [received EXCEPT ![s] = <<>>]
    /\ UNCHANGED <<offline, missing_optional, app_state, req, ws, sent, published>>

\* a direct call broadcast.publish(channel, {"n": k}) for the k-th message
Publish(channel) ==
    /\ Len(published) < MaxPublished
    /\ publish(channel, Dict(<<Member("n", Num(Len(published) + 1))>>))
    /\ UNCHANGED <<offline, missing_optional, app_state, subscribers, gen, received,
                   req, ws, sent>>

\* --------------------------------------------------------- offline scripts
\* data_preparation.py and finetune_model.py, run one after the other from
\* the repository root with their default arguments (run_smoke_tests.py)
train_file == "data/processed/train.jsonl"
validation_file == "data/processed/valid.jsonl"
mock_adapter_path == "models/lit-emergency-triage/adapter_model.bin"
mock_config_path == "models/lit-emergency-triage/adapter_config.json"

Paths == {train_file, validation_file, mock_adapter_path, mock_config_path}

\* a file is the sequence of what was written to it: the lines of a JSONL
\* file (one processed item each, an item being its number), or the one
\* chunk of an adapter file
NoFile == [exists |-> FALSE, lines |-> <<>>]
File(lines) == [exists |-> TRUE, lines |-> lines]

\* os.path.exists(path)
exists(files, path) == files[path].exists

\* what an earlier run left in a file that exists before the scripts run
Stale(path) ==
    IF path \in {train_file, validation_file} THEN File(<<0>>)
    ELSE File(<<"left by an earlier run">>)

required_packages == {"torch", "transformers", "peft"}

NoRuns ==
    [prep |-> [pc |-> "none", exit_code |-> 0, error |-> "none",
               processed_data |-> <<>>],
     finetune |-> [pc |-> "none", exit_code |-> 0, error |-> "none",
                   missing_required |-> required_packages]]

\* ---- data_preparation.py
\* the shuffles tried for n processed items: every order of the items up to
\* MaxItems of them, and the rotations of the list for the larger sizes
Shuffles(n) ==
    IF n <= MaxItems
    THEN {p \in [1..n -> 1..n] : \A i, j \in 1..n : p[i] = p[j] => i = j}
    ELSE {[i \in 1..n |-> ((i + k) % n) + 1] : k \in 0..(n - 1)}

\* variant: the split index is rounded to the nearest integer
split_idx_rounded(data) == (Len(data) * 9 + 5) \div 10

\* int(len(processed_data) * 0.9): the double nearest to 0.9 is above 0.9, so
\* the product is never below the exact 9n/10 and truncates to its floor
split_idx(data) == (Len(data) * 9) \div 10

train_data(data) == SubSeq(data, 1, split_idx(data))
valid_data(data) == SubSeq(data, split_idx(data) + 1, Len(data))

\* variant: the file is opened for appending
save_to_jsonl_append(files, data, output_file) ==
    [files EXCEPT ![output_file] = File(files[output_file].lines \o data)]

\* the file is opened with mode 'w', which truncates it, and gets one line
\* per item
save_to_jsonl(files, data, output_file) ==
    [files EXCEPT ![output_file] = File(data)]

\* main() of data_preparation.py; before the split it may end on missing
\* packages (exit at import) or on load_dataset raising (no network, no
\* token), both with exit status 1 and nothing written
data_preparation_main ==
    /\ proc.prep.pc = "none"
    /\ \E failure \in {"none", "missing_packages", "load_dataset"} :
       \E n \in Sizes : \E processed_data \in Shuffles(n) :
          IF failure # "none"
          THEN /\ proc' = [proc EXCEPT !.prep.pc = "exit",
                                       !.prep.exit_code = 1,
                                       !.prep.error = failure]
               /\ fs' = fs
          ELSE /\ proc' = [proc EXCEPT !.prep.pc = "exit",
                                       !.prep.exit_code = 0,
                                       !.prep.processed_data = processed_data]
               /\ fs' = save_to_jsonl(
                            save_to_jsonl(fs, train_data(processed_data), train_file),
                            valid_data(processed_data), validation_file)
    /\ UNCHANGED <<missing_optional, app_state, subscribers, queue, gen,
                   received, req, ws, sent, published>>

\* ---- finetune_model.py
\* set_seed: `torch` is in sys.modules once the package check imported it,
\* but the name torch is bound only when no required package is missing
set_seed(missing_required) ==
    IF "torch" \notin missing_required /\ missing_required # {}
    THEN "NameError" ELSE "none"

\* variant: only the training file is looked for
missing_input_train_only(files) ==
    IF ~exists(files, train_file) THEN train_file ELSE "none"

\* the input file whose absence raises FileNotFoundError, or "none"
missing_input(files) ==
    IF ~exists(files, train_file) THEN train_file
    ELSE IF ~exists(files, validation_file) THEN validation_file
    ELSE "none"

\* mock mode: the adapter file is written unless it exists, and the adapter
\* config is written inside the same `if`
mock_files(files) ==
    IF ~exists(files, mock_adapter_path)
    THEN [files EXCEPT ![mock_adapter_path] = File(<<"MOCK_ADAPTER_FILE">>),
                       ![mock_config_path] = File(<<"mock LoRA config">>)]
    ELSE files

\* real mode, training went through: model.save_pretrained(output_dir)
saved_pretrained(files) ==
    [files EXCEPT ![mock_adapter_path] = File(<<"LoRA weights">>),
                  ![mock_config_path] = File(<<"LoRA config">>)]

Failed(run, error) ==
    [run EXCEPT !.pc = "exit", !.exit_code = 1, !.error = error]

\* main() of finetune_model.py: every exception ends in sys.exit(1)
finetune_main ==
    /\ proc.finetune.pc = "none"
    /\ LET run == proc.finetune
       IN  IF set_seed(run.missing_required) # "none"
           THEN /\ proc' = [proc EXCEPT !.finetune =
                                Failed(run, set_seed(run.missing_required))]
                /\ fs' = fs
           ELSE IF missing_input(fs) # "none"
           THEN /\ proc' = [proc EXCEPT !.finetune =
                                Failed(run, "FileNotFoundError")]
                /\ fs' = fs
           ELSE IF run.missing_required # {}
           THEN /\ proc' = [proc EXCEPT !.finetune.pc = "exit"]
                /\ fs' = mock_files(fs)
           ELSE \E trained \in BOOLEAN :
                   IF trained
                   THEN /\ proc' = [proc EXCEPT !.finetune.pc = "exit"]
                        /\ fs' = saved_pretrained(fs)
                   ELSE /\ proc' = [proc EXCEPT !.finetune =
                                        Failed(run, "training")]
                        /\ fs' = fs
    /\ UNCHANGED <<missing_optional, app_state, subscribers, queue, gen,
                   received, req, ws, sent, published>>

\* ------------------------------------------------------- specifications
Init ==
    /\ missing_optional \in {m \cup {"broadcaster"} : m \in SUBSET StagePackages}
    /\ app_state = "created"
    /\ subscribers = {}
    /\ queue = [s \in SubscriptionIds |-> <<>>]
    /\ gen = [s \in SubscriptionIds |-> NoGenerator]
    /\ received = [s \in SubscriptionIds |-> <<>>]
    /\ req = [r \in RequestIds |-> NoRequest]
    /\ ws = [c \in ConnectionIds |-> NoConnection]
    /\ sent = [c \in ConnectionIds |-> <<>>]
    /\ published = <<>>
    /\ fs = [path \in Paths |-> NoFile]
    /\ proc = NoRuns

\* the server as it is deployed: webhooks, /ws connections, lifecycle
Next ==
    \/ startup
    \/ shutdown
    \/ \E r \in RequestIds : Receive(r, Payloads)
    \/ \E r \in RequestIds : handle_call(r)
    \/ \E r \in RequestIds : handle_recording(r)
    \/ \E r \in RequestIds : handle_response(r)
    \/ \E c \in ConnectionIds : WsConnect(c)
    \/ \E c \in ConnectionIds : websocket_endpoint(c)

Spec == Init /\ [][Next]_vars

\* an install with fastapi and uvicorn only: every stage adapter is a stub
StubInstall == StagePackages \cup {"broadcaster"}

BusInit == Init /\ missing_optional = StubInstall

\* MockBroadcaster driven through its own methods: publish calls and
\* consumers iterating subscribe()
BusNext ==
    \/ \E ch \in Channels : Publish(ch)
    \/ \E s \in SubscriptionIds : \E ch \in Channels : subscribe(s, ch)
    \/ \E s \in SubscriptionIds : subscribe_yield(s)
    \/ \E s \in SubscriptionIds : subscribe_finally(s)

BusSpec == BusInit /\ [][BusNext]_vars

\* the webhooks publishing to consumers that iterate subscribe(), next to
\* /ws connections; the client posts a webhook once the one before it was
\* answered, so the handlers run one at a time, interleaved with the
\* consumers and the connections
FanoutNext ==
    \/ startup
    \/ \E r \in RequestIds : InFlight = {} /\ Receive(r, FormPayloads)
    \/ \E r \in RequestIds : handle_call(r)
    \/ \E r \in RequestIds : handle_recording(r)
    \/ \E r \in RequestIds : handle_response(r)
    \/ \E c \in ConnectionIds : WsConnect(c)
    \/ \E c \in ConnectionIds : websocket_endpoint(c)
    \/ \E s \in SubscriptionIds : \E ch \in Channels : subscribe(s, ch)
    \/ \E s \in SubscriptionIds : subscribe_yield(s)
    \/ \E s \in SubscriptionIds : subscribe_finally(s)

FanoutSpec == BusInit /\ [][FanoutNext]_vars

\* the webhooks alone, posted one at a time with every payload, on every
\* install
WebhookNext ==
    \/ startup
    \/ \E r \in RequestIds : InFlight = {} /\ Receive(r, Payloads)
    \/ \E r \in RequestIds : handle_call(r)
    \/ \E r \in RequestIds : handle_recording(r)
    \/ \E r \in RequestIds : handle_response(r)

WebhookSpec == Init /\ [][WebhookNext]_vars

\* the webhooks posted one at a time on the stub install, where the call to
\* a stage adapter may raise
FaultNext ==
    \/ startup
    \/ \E r \in RequestIds : InFlight = {} /\ Receive(r, FaultPayloads)
    \/ \E r \in RequestIds : handle_call(r)
    \/ \E r \in RequestIds : handle_recording(r)
    \/ \E r \in RequestIds : handle_response(r)

FaultSpec == BusInit /\ [][FaultNext]_vars

\* the health endpoint polled between webhooks that are posted one at a
\* time with the complete form-encoded body, on every install
HealthNext ==
    \/ startup
    \/ \E r \in RequestIds : health_check(r)
    \/ \E r \in RequestIds : InFlight = {} /\ Receive(r, FormPayloads)
    \/ \E r \in RequestIds : handle_call(r)
    \/ \E r \in RequestIds : handle_recording(r)
    \/ \E r \in RequestIds : handle_response(r)

HealthSpec == Init /\ [][HealthNext]_vars

\* the two scripts run once each, in either order, on every install of the
\* packages finetune_model.py requires and with each file present or not
ScriptInit ==
    /\ missing_optional = StubInstall
    /\ app_state = "created"
    /\ subscribers = {}
    /\ queue = [s \in SubscriptionIds |-> <<>>]
    /\ gen = [s \in SubscriptionIds |-> NoGenerator]
    /\ received = [s \in SubscriptionIds |-> <<>>]
    /\ req = [r \in RequestIds |-> NoRequest]
    /\ ws = [c \in ConnectionIds |-> NoConnection]
    /\ sent = [c \in ConnectionIds |-> <<>>]
    /\ published = <<>>
    /\ \E present \in SUBSET Paths :
          fs = [path \in Paths |-> IF path \in present THEN Stale(path) ELSE NoFile]
    /\ \E missing \in SUBSET required_packages :
          proc = [NoRuns EXCEPT !.finetune.missing_required = missing]

ScriptNext ==
    \/ data_preparation_main
    \/ finetune_main

ScriptSpec == ScriptInit /\ [][ScriptNext]_vars

\* the channel each consumer subscribes to in ChannelSpec: the first to
\* calls, as /ws does, the next to transcripts, then responses, ...
ChannelOf(s) ==
    CASE s % 3 = 1 -> "calls"
      [] s % 3 = 2 -> "transcripts"
      [] OTHER     -> "responses"

\* the bus with every consumer subscribed to its own channel
ChannelNext ==
    \/ \E ch \in Channels : Publish(ch)
    \/ \E s \in SubscriptionIds : subscribe(s, ChannelOf(s))
    \/ \E s \in SubscriptionIds : subscribe_yield(s)
    \/ \E s \in SubscriptionIds : subscribe_finally(s)

ChannelSpec == BusInit /\ [][ChannelNext]_vars

\* the complete form-encoded body, handled while the bus works or while
\* broadcast.publish raises
PublishFaultPayloads ==
    [kind \in Kinds |->
        {[body |-> FullBody(kind, "CA1"), body_kind |-> "form", raises |-> f] :
            f \in {"none", "publish"}}]

\* the server from startup to shutdown on every install, its webhooks posted
\* one at a time, where a call of broadcast.publish may raise
BusFaultNext ==
    \/ startup
    \/ shutdown
    \/ \E r \in RequestIds : InFlight = {} /\ Receive(r, PublishFaultPayloads)
    \/ \E r \in RequestIds : handle_call(r)
    \/ \E r \in RequestIds : handle_recording(r)
    \/ \E r \in RequestIds : handle_response(r)

BusFaultSpec == Init /\ [][BusFaultNext]_vars

\* ------------------------------------------------------------ properties
\* the i-th published event as a subscriber parses it
Event(i) == json_loads(published[i].message)

CallOf(i) == DictGet(Event(i), "call_sid")

SeqNo(i) == DictGet(Event(i), "sequence_number").v

\* the events published before the i-th for the same call
EarlierOfCall(i) == {j \in 1..(i - 1) : CallOf(j) = CallOf(i)}

\* C1: every published event carries a sequence_number, and per call_id the
\* numbers go up by exactly one from each event of the call to the next one
\* published for it (strictly increasing, no gap, no duplicate).
C1_SequenceNumbers ==
    \A i \in 1..Len(published) :
        /\ HasKey(Event(i), "sequence_number")
        /\ \A j \in EarlierOfCall(i) :
              (\A k \in EarlierOfCall(i) : k <= j) => SeqNo(i) = SeqNo(j) + 1

event_of(request) ==
    CASE request.kind = "call"      -> call_event(request)
      [] request.kind = "recording" -> recording_event(request)
      [] request.kind = "response"  -> response_event(request)

\* the handler of r returned 200 and its event went out
Completed(r) ==
    /\ req[r].pc = "done"
    /\ req[r].response.status = 200
    /\ \E i \in 1..Len(published) :
          published[i].message = json_dumps(event_of(req[r]))

IsPipelineRun(r) == req[r].pc # "none" /\ req[r].kind \in {"recording", "response"}

Overlapped(r1, r2) == r1 \in req[r2].during \/ r2 \in req[r1].during

\* C2: of two processing requests (recording-ready, response-requested) for
\* the same call_id that were in flight at the same time, at most one
\* completes and has its result published; the other is rejected or cancelled.
C2_SingleFlight ==
    \A r1, r2 \in RequestIds :
        (/\ r1 # r2
         /\ IsPipelineRun(r1) /\ IsPipelineRun(r2)
         /\ call_sid_of(req[r1]) = call_sid_of(req[r2])
         /\ Overlapped(r1, r2))
        => ~(Completed(r1) /\ Completed(r2))

\* C3: a connection accepted on /ws is subscribed to the three channels
\* calls, transcripts and responses together.
C3_SubscribedToAll ==
    \A c \in ConnectionIds : ws[c].accepted => ws[c].channels = Channels

\* a form-encoded call-started webhook that has the field CallSid
HasCallSid(request) ==
    /\ request.kind = "call"
    /\ request.body_kind # "json"
    /\ request.body["CallSid"] # Absent

LastPublished == published[Len(published)]

\* C10: the handler of a call-started webhook with field CallSid publishes
\* exactly one event, on channel calls, of kind call_started and with
\* call_sid equal to that CallSid, and returns a response with that call_sid.
C10_CallStarted ==
    [][\A r \in RequestIds :
          (req[r].pc = "form" /\ HasCallSid(req[r]) /\ req'[r].pc = "done")
          => /\ Len(published') = Len(published) + 1
             /\ LastPublished'.channel = "calls"
             /\ DictGet(json_loads(LastPublished'.message), "event")
                    = Str("call_started")
             /\ DictGet(json_loads(LastPublished'.message), "call_sid")
                    = Str(req[r].body["CallSid"])
             /\ DictGet(req'[r].response.body, "call_sid")
                    = Str(req[r].body["CallSid"])]_vars


\* in a run of the bus every message is distinct: the index of its publish
PublishedIndex(text) ==
    CHOOSE i \in 1..Len(published) : published[i].message = text

ChannelOfReceived(s, i) == published[PublishedIndex(received[s][i])].channel

\* C4: of two events of the same channel yielded to one consumer, the one
\* published first is yielded first.
C4_ChannelOrder ==
    \A s \in SubscriptionIds : \A i, j \in 1..Len(received[s]) :
        (i < j /\ ChannelOfReceived(s, i) = ChannelOfReceived(s, j))
        => PublishedIndex(received[s][i]) < PublishedIndex(received[s][j])

C4_Witness ==
    \E s \in SubscriptionIds : \E i, j \in 1..Len(received[s]) :
        /\ i < j
        /\ ChannelOfReceived(s, i) = ChannelOfReceived(s, j)
        /\ gen[s].since > 0

\* C5: a publish puts the message exactly once at the end of the queue of
\* every subscriber of that moment, and on no other queue.
C5_FanOut ==
    [][Len(published') = Len(published) + 1
       => \A s \in SubscriptionIds :
             queue'[s] = IF s \in subscribers
                         THEN Append(queue[s], LastPublished'.message)
                         ELSE queue[s]]_vars

C5_Witness ==
    /\ Len(published) > 0
    /\ \E s, t \in subscribers :
          /\ s # t
          /\ queue[s] # <<>> /\ queue[s][Len(queue[s])] = LastPublished.message
          /\ queue[t] # <<>> /\ queue[t][Len(queue[t])] = LastPublished.message
          /\ Len(queue[s]) # Len(queue[t])

\* C6: the subscriber set holds exactly the queues of the generators still
\* running: a consumer that has ended is not in it, nothing is queued for it
\* by later publishes, and a /ws connection that has ended has left no queue.
C6_NoLeak ==
    /\ subscribers = {s \in SubscriptionIds : gen[s].pc = "waiting"}
    /\ \A s \in SubscriptionIds : gen[s].pc = "closed" => queue[s] = <<>>

C6_Witness ==
    /\ \E s \in SubscriptionIds :
          /\ gen[s].pc = "closed"
          /\ 0 < gen[s].closed_at
          /\ gen[s].closed_at < Len(published)
    /\ \E c \in ConnectionIds : ws[c].pc = "returned"

\* the messages published after the first n
PublishedAfter(n) == [i \in 1..(Len(published) - n) |-> published[n + i].message]

\* C7: what a subscription has yielded plus what waits in its queue is
\* exactly the sequence of messages published since it began, in order.
C7_SinceSubscribed ==
    \A s \in SubscriptionIds :
        gen[s].pc = "waiting"
        => received[s] \o queue[s] = PublishedAfter(gen[s].since)

\* events 1, 2, 3: one consumer from before 1 has them all, one that came
\* between 2 and 3 has the third only
C7_Witness ==
    /\ Len(published) = 3
    /\ \E s, t \in SubscriptionIds :
          /\ gen[s].since = 0 /\ Len(received[s]) = 3
          /\ gen[t].since = 2 /\ Len(received[t]) = 1
          /\ received[t][1] = published[3].message

\* C8: while the handler of a webhook is in flight no subscriber queue is
\* full, so its publish never waits for a consumer; and the step that resumes
\* the handler publishes its event and returns the response, status 200,
\* without a further suspension.
C8_PublishReturns ==
    /\ [](\A r \in RequestIds : req[r].pc = "form" => ~PutBlocks)
    /\ [][\A r \in RequestIds :
             (req[r].pc = "form" /\ req'[r] # req[r])
             => /\ req'[r].pc = "done"
                /\ req'[r].response.status = 200
                /\ Len(published') = Len(published) + 1]_vars

C8_Witness ==
    /\ \A r \in RequestIds : req[r].pc = "done" /\ req[r].response.status = 200
    /\ \E s \in subscribers : received[s] = <<>> /\ Len(queue[s]) = MaxRequests

WsFails(c) ==
    ws[c].pc = "accept" /\ ws'[c].pc = "returned" /\ ws'[c].error # ""

ConsumerEnds(s) == gen[s].pc = "waiting" /\ gen'[s].pc = "closed"

\* C9: the step in which a /ws connection fails or a consumer ends changes
\* nothing for the other consumers and connections (their queues, what they
\* were yielded, their place in the subscriber set) nor for any webhook, and
\* leaves no queue on which a publish would wait.
C9_Isolation ==
    [][((\E c \in ConnectionIds : WsFails(c))
          \/ (\E s \in SubscriptionIds : ConsumerEnds(s)))
       => /\ \A t \in SubscriptionIds :
                ~ConsumerEnds(t)
                => /\ gen'[t] = gen[t]
                   /\ queue'[t] = queue[t]
                   /\ received'[t] = received[t]
                   /\ (t \in subscribers') = (t \in subscribers)
          /\ \A d \in ConnectionIds : ~WsFails(d) => ws'[d] = ws[d]
          /\ req' = req
          /\ published' = published
          /\ ~PutBlocks']_vars

C9_Witness ==
    /\ \E c \in ConnectionIds : ws[c].pc = "returned" /\ ws[c].error # ""
    /\ \E r \in RequestIds : req[r].pc = "done" /\ req[r].response.status = 200
    /\ \E s, t \in SubscriptionIds :
          /\ gen[s].pc = "closed"
          /\ gen[t].pc = "waiting"
          /\ gen[t].since <= gen[s].closed_at
          /\ gen[s].closed_at < Len(published)
          /\ Len(received[t]) + Len(queue[t]) = Len(published) - gen[t].since


\* the webhook came with the form field (its body may still fail to parse)
Carries(request, field) ==
    request.body_kind # "json" /\ request.body[field] # Absent

\* the handler of r returns in this step
Returns(r) == req[r].pc = "form" /\ req'[r].pc = "done"

\* C11: the handler of a recording-ready webhook with field CallSid runs the
\* transcribe stage and then publishes one event on channel transcripts, of
\* kind transcript_ready and with call_sid equal to that CallSid.
C11_TranscriptReady ==
    [][\A r \in RequestIds :
          (Returns(r) /\ req[r].kind = "recording" /\ Carries(req[r], "CallSid"))
          => /\ \E i \in 1..Len(stages_run(req[r])) : stages_run(req[r])[i] = "asr"
             /\ Len(published') = Len(published) + 1
             /\ LastPublished'.channel = "transcripts"
             /\ DictGet(json_loads(LastPublished'.message), "event")
                    = Str("transcript_ready")
             /\ DictGet(json_loads(LastPublished'.message), "call_sid")
                    = Str(req[r].body["CallSid"])]_vars

TriageFields ==
    {"emergency_type", "priority", "location", "caller_name", "summary",
     "recommended_actions", "emotions"}

\* C12: the handler of a response-requested webhook publishes one event on
\* channel responses that has the keys event and call_sid, the latter equal
\* to the CallSid of the request, and every triage field and emotions, on
\* every install (triage adapter stub or inline default).
C12_ResponseEvent ==
    [][\A r \in RequestIds :
          (Returns(r) /\ req[r].kind = "response" /\ Carries(req[r], "CallSid"))
          => /\ Len(published') = Len(published) + 1
             /\ LastPublished'.channel = "responses"
             /\ LET event == json_loads(LastPublished'.message)
                IN  /\ {"event", "call_sid"} \cup TriageFields \subseteq Keys(event)
                    /\ DictGet(event, "call_sid") = Str(req[r].body["CallSid"])]_vars

\* a flat mapping from label to an intensity in [0,1] (in tenths: 0..10)
FlatIntensities(x) ==
    /\ x.t = "dict"
    /\ \A i \in 1..Len(x.v) : x.v[i].val.t = "num" /\ x.v[i].val.v \in 0..10

\* the emotions values of an event or of a response body
EmotionsIn(d) ==
    (IF HasKey(d, "emotions") THEN {DictGet(d, "emotions")} ELSE {})
    \cup (IF HasKey(d, "analysis") /\ HasKey(DictGet(d, "analysis"), "emotions")
          THEN {DictGet(DictGet(d, "analysis"), "emotions")} ELSE {})

\* C13: the emotions value of every published event and of every webhook
\* response is a flat mapping from label to a number in [0,1], with the stub
\* emotion adapter and without an adapter.
C13_FlatEmotions ==
    /\ \A i \in 1..Len(published) :
          \A e \in EmotionsIn(json_loads(published[i].message)) : FlatIntensities(e)
    /\ \A r \in RequestIds :
          req[r].pc = "done" =>
             \A e \in EmotionsIn(req[r].response.body) : FlatIntensities(e)

RequiredFields(kind) ==
    CASE kind = "call"      -> {"CallSid"}
      [] kind = "recording" -> {"CallSid", "RecordingUrl"}
      [] kind = "response"  -> {"CallSid", "Transcript"}

\* the form the handler read lacks a required field
MissesRequired(request) ==
    \E f \in RequiredFields(request.kind) : form_data(request)[f] = Absent

\* C14: a webhook whose payload misses a required field is answered with a
\* status outside 200..299, no stage adapter is called for it and it
\* publishes nothing.
C14_MalformedRejected ==
    [][\A r \in RequestIds :
          (Returns(r) /\ MissesRequired(req[r]))
          => /\ req'[r].response.status \notin 200..299
             /\ stages_run(req[r]) = <<>>
             /\ published' = published]_vars

\* the form the handler read has neither CallSid nor Transcript
NoResponseFields(request) ==
    /\ request.kind = "response"
    /\ form_data(request)["CallSid"] = Absent
    /\ form_data(request)["Transcript"] = Absent

\* C15: a POST to /twilio/response whose body gives the handler no CallSid
\* and no Transcript field (a JSON body) is answered 200 with a triage
\* response for the default call id, and publishes one new_response event
\* for that default call id on channel responses.
C15_DefaultsAccepted ==
    [][\A r \in RequestIds :
          (Returns(r) /\ NoResponseFields(req[r]))
          => /\ req'[r].response.status = 200
             /\ TriageFields \subseteq Keys(req'[r].response.body)
             /\ DictGet(req'[r].response.body, "call_sid") = Str("test-call-sid")
             /\ Len(published') = Len(published) + 1
             /\ LastPublished'.channel = "responses"
             /\ DictGet(json_loads(LastPublished'.message), "event")
                    = Str("new_response")
             /\ DictGet(json_loads(LastPublished'.message), "call_sid")
                    = Str("test-call-sid")]_vars

C15_Witness ==
    \E r \in RequestIds :
        /\ req[r].pc = "done"
        /\ req[r].body_kind = "json"
        /\ NoResponseFields(req[r])
        /\ req[r].response.status = 200
        /\ Len(published) >= r
        /\ published[r].channel = "responses"

\* the handler of the request calls the adapter whose call raises
RaisesIn(request) ==
    \E i \in 1..Len(StageCalls(request)) : StageCalls(request)[i] = request.raises

\* C16: when the call to a stage adapter raises while a webhook is handled,
\* the raising call is the last adapter call of the request, and the handler
\* ends without publishing an event and without a 200 response.
C16_NoSuccessAfterRaise ==
    [][\A r \in RequestIds :
          (Returns(r) /\ RaisesIn(req[r]))
          => /\ stages_run(req[r]) # <<>>
             /\ stages_run(req[r])[Len(stages_run(req[r]))] = req[r].raises
             /\ published' = published
             /\ queue' = queue
             /\ req'[r].response.status = 500]_vars

\* a transcribe failure and a triage failure, each with nothing published
C16_Witness ==
    /\ published = <<>>
    /\ \E r1, r2 \in RequestIds :
          /\ req[r1].pc = "done" /\ req[r1].kind = "recording"
          /\ req[r1].raises = "asr" /\ req[r1].response.status = 500
          /\ req[r2].pc = "done" /\ req[r2].kind = "response"
          /\ req[r2].raises = "llm" /\ req[r2].response.status = 500

Replay(r1, r2) ==
    /\ r1 < r2
    /\ req[r1].pc = "done" /\ req[r2].pc = "done"
    /\ req[r1].kind = "recording" /\ req[r2].kind = "recording"
    /\ req[r1].body = req[r2].body /\ req[r1].body_kind = req[r2].body_kind
    /\ req[r1].response.status = 200 /\ req[r2].response.status = 200

\* the event of the r-th webhook when each webhook published one event
EventOf(r) == json_loads(published[r].message)

C19_RoundTrip ==
    [][\A r \in RequestIds :
          (Returns(r) /\ req[r].kind = "response")
          => /\ Len(published') = Len(published) + 1
             /\ LET parsed == json_loads(LastPublished'.message)
                    triage == triage_result(req[r])
                IN  \A k \in {"emergency_type", "priority", "recommended_actions"} :
                        DictGet(parsed, k) = DictGet(triage, k)]_vars

C19_Witness ==
    \E r \in RequestIds :
        /\ req[r].pc = "done" /\ req[r].kind = "response"
        /\ Truthy(llm_service)
        /\ Len(published) >= r
        /\ Len(DictGet(EventOf(r), "recommended_actions").v) > 1

\* the stage of the call an event reports, in the order Started, Recording,
\* Transcribed, Triaged, Completed
StageRank(event) ==
    CASE DictGet(event, "event") = Str("call_started")   -> 1
      [] DictGet(event, "event") = Str("new_transcript") -> 3
      [] DictGet(event, "event") = Str("new_response")   -> 4

\* C20: for every call the stage reported by its events never moves
\* backwards: an event of a call is not followed by an event of that call
\* for an earlier stage.
C20_StatusMonotonic ==
    \A i, j \in 1..Len(published) :
        (i < j /\ CallOf(i) = CallOf(j))
        => StageRank(Event(i)) <= StageRank(Event(j))

\* the health requests answered so far
HealthAnswered == {r \in RequestIds : req[r].pc = "done" /\ req[r].kind = "health"}

\* the adapter object installed for a stage
ServiceOf(stage) ==
    CASE stage = "asr"     -> asr_service
      [] stage = "llm"     -> llm_service
      [] stage = "emotion" -> emotion_service

\* what a health report says of a stage
Reported(report, stage) == DictGet(DictGet(report, "services"), stage)

\* C21: every health request is answered with status ok; for each stage the
\* report says mock exactly when the stub adapter object is installed and
\* ready exactly when it is not; all reports of one process are equal.
C21_HealthReport ==
    /\ \A r \in HealthAnswered :
          /\ req[r].response.status = 200
          /\ DictGet(req[r].response.body, "status") = Str("ok")
          /\ \A stage \in Stages :
                /\ Reported(req[r].response.body, stage) = Str("mock")
                      <=> Truthy(ServiceOf(stage))
                /\ Reported(req[r].response.body, stage) = Str("ready")
                      <=> ~Truthy(ServiceOf(stage))
    /\ \A r1, r2 \in HealthAnswered : req[r1].response.body = req[r2].response.body

\* two health reports of a process where torch alone is missing
C21_Witness ==
    /\ missing_optional = {"torch", "broadcaster"}
    /\ \E r1, r2 \in HealthAnswered :
          /\ r1 # r2
          /\ Reported(req[r1].response.body, "llm") = Str("mock")
          /\ Reported(req[r2].response.body, "asr") = Str("ready")

\* the stages whose output the answer and the event of a webhook carry
StageOutputs(kind) ==
    CASE kind = "recording" -> {"asr", "emotion"}
      [] kind = "response"  -> {"llm", "emotion"}
      [] OTHER              -> {}

\* the handler of the request called the adapter of the stage
AdapterCalled(request, stage) ==
    \E i \in 1..Len(stages_run(request)) : stages_run(request)[i] = stage

\* C22: a webhook handler that answers 200 or publishes an event carries,
\* for every stage that health reports as ready, output that an adapter call
\* of the request produced, never a value written into the handler.
C22_NoPlaceholderOutput ==
    [][\A r \in RequestIds :
          (Returns(r) /\ (req'[r].response.status = 200 \/ published' # published))
          => \A stage \in StageOutputs(req[r].kind) :
                 Reported(health_status, stage) = Str("ready")
                 => AdapterCalled(req[r], stage)]_vars

\* finetune_model.py runs in this step
FinetuneRuns == proc.finetune.pc = "none" /\ proc'.finetune.pc = "exit"

\* C23: a run of the fine-tuning script with a required package missing and
\* both input files present exits with status 0 and leaves adapter_model.bin
\* and adapter_config.json in the output directory, whatever was there before.
C23_MockAdapterWritten ==
    [][(/\ FinetuneRuns
        /\ proc.finetune.missing_required # {}
        /\ exists(fs, train_file)
        /\ exists(fs, validation_file))
       => /\ proc'.finetune.exit_code = 0
          /\ exists(fs', mock_adapter_path)
          /\ exists(fs', mock_config_path)]_vars

\* C24: the events published and not yet consumed of a subscriber never
\* exceed a fixed capacity.  The queues of the code have no capacity
\* (maxsize 0), so the claim is stated for the largest capacity a run of
\* MaxPublished publishes can exceed: some event is dropped, or the
\* subscriber is disconnected, before all of them are pending.
C24_BoundedQueue ==
    \A s \in SubscriptionIds : Len(queue[s]) <= MaxPublished - 1

\* C25: a publish never waits on a queue, so it runs from its first put to
\* its return with no subscribe or unsubscribe in between: in the step of a
\* publish the subscriber set and the generators stay as they are and every
\* subscriber gets the message, whatever subscribed or ended before or after.
C25_PublishAtomic ==
    /\ [](~PutBlocks)
    /\ [][Len(published') = Len(published) + 1
          => /\ subscribers' = subscribers
             /\ gen' = gen
             /\ \A s \in subscribers : Len(queue'[s]) = Len(queue[s]) + 1]_vars

\* a consumer subscribed throughout holds every message, while another
\* ended between two of the publishes
C25_Witness ==
    /\ Len(published) = MaxPublished
    /\ \E s, t \in SubscriptionIds :
          /\ gen[s].pc = "waiting" /\ gen[s].since = 0
          /\ Len(received[s]) + Len(queue[s]) = MaxPublished
          /\ gen[t].pc = "closed"
          /\ 0 < gen[t].closed_at /\ gen[t].closed_at < MaxPublished

\* C26: an event is delivered only to the subscriptions made for the channel
\* it was published on: whatever a consumer is yielded or has pending was
\* published on the channel it subscribed to.
C26_ChannelIsolation ==
    \A s \in SubscriptionIds :
        /\ \A i \in 1..Len(received[s]) : ChannelOfReceived(s, i) = ChannelOf(s)
        /\ \A i \in 1..Len(queue[s]) :
              published[PublishedIndex(queue[s][i])].channel = ChannelOf(s)

\* the body a handler answers with when nothing fails
ResultOf(request) ==
    CASE request.kind = "call"      -> call_response(request)
      [] request.kind = "recording" -> recording_response(request)
      [] request.kind = "response"  -> response_response(request)

\* C27: when broadcast.publish raises in a webhook handler the handler still
\* answers 200 with the result it computed, and nothing is delivered; the
\* server goes from created to running and from running to shutdown although
\* connect and disconnect raise.
C27_BusFailureSwallowed ==
    /\ [][\A r \in RequestIds :
             (Returns(r) /\ req[r].raises = "publish")
             => /\ req'[r].response = [status |-> 200, body |-> ResultOf(req[r])]
                /\ published' = published
                /\ queue' = queue]_vars
    /\ [][app_state' # app_state
          => /\ Broadcast_connect # "connected"
             /\ Broadcast_disconnect # "disconnected"
             /\ \/ app_state = "created" /\ app_state' = "running"
                \/ app_state = "running" /\ app_state' = "shutdown"]_vars

\* a server that was started and shut down, and answered a triage request
\* whose publish raised
C27_Witness ==
    /\ app_state = "shutdown"
    /\ published = <<>>
    /\ \E r \in RequestIds :
          /\ req[r].pc = "done" /\ req[r].kind = "response"
          /\ req[r].raises = "publish"
          /\ req[r].response.status = 200
          /\ HasKey(req[r].response.body, "recommended_actions")

\* the fields an answer and its event have in common
SharedFields(kind) ==
    CASE kind = "recording" -> {"call_sid", "transcript", "analysis"}
      [] kind = "response"  -> {"call_sid"} \cup TriageFields

\* C28: the answer to a recording-ready or response-requested webhook and
\* the event published for it, parsed back from its text, have the same
\* call_sid and the same stage results, and the handler called each adapter
\* at most once.
C28_ResponseMatchesEvent ==
    [][\A r \in RequestIds :
          (Returns(r) /\ req[r].kind \in {"recording", "response"})
          => /\ Len(published') = Len(published) + 1
             /\ LET event == json_loads(LastPublished'.message)
                    body == req'[r].response.body
                IN  \A k \in SharedFields(req[r].kind) :
                        /\ HasKey(event, k) /\ HasKey(body, k)
                        /\ DictGet(event, k) = DictGet(body, k)
             /\ \A i, j \in 1..Len(stages_run(req[r])) :
                    stages_run(req[r])[i] = stages_run(req[r])[j] => i = j]_vars

\* both webhooks answered on the install where every adapter is a stub
C28_Witness ==
    /\ Truthy(asr_service) /\ Truthy(llm_service) /\ Truthy(emotion_service)
    /\ Len(published) = 2
    /\ \E r1, r2 \in RequestIds :
          /\ req[r1].pc = "done" /\ req[r1].kind = "recording"
          /\ req[r2].pc = "done" /\ req[r2].kind = "response"
          /\ req[r1].response.status = 200 /\ req[r2].response.status = 200
          /\ DictGet(req[r1].response.body, "call_sid") = Str("CA1")

\* C29: a run of the fine-tuning script that finds the training file or the
\* validation file missing exits with a non-zero status and leaves
\* adapter_model.bin and adapter_config.json as they were, whichever of the
\* required packages are missing (mock mode) or none (real mode).
C29_MissingInputFails ==
    [][(/\ FinetuneRuns
        /\ ~(exists(fs, train_file) /\ exists(fs, validation_file)))
       => /\ proc'.finetune.exit_code # 0
          /\ fs'[mock_adapter_path] = fs[mock_adapter_path]
          /\ fs'[mock_config_path] = fs[mock_config_path]]_vars

\* the script failed on the missing validation file in mock mode, with the
\* training file there and no adapter file in the output directory
C29_Witness ==
    /\ proc.finetune.pc = "exit"
    /\ proc.finetune.error = "FileNotFoundError"
    /\ proc.finetune.missing_required = required_packages
    /\ proc.prep.pc = "none"
    /\ exists(fs, train_file) /\ ~exists(fs, validation_file)
    /\ ~exists(fs, mock_adapter_path) /\ ~exists(fs, mock_config_path)

\* the number of lines of files[path] that hold the item
Occurrences(files, path, item) ==
    Cardinality({i \in 1..Len(files[path].lines) : files[path].lines[i] = item})

\* C30: after a successful run of the data preparation on n processed items
\* train.jsonl and valid.jsonl both exist, train.jsonl has floor(0.9 n) lines
\* (the largest k with 10 k <= 9 n), valid.jsonl has the other n - k, and
\* every item is on exactly one line of the two files together; nothing of
\* what the files held before is left.
C30_SplitPartition ==
    (proc.prep.pc = "exit" /\ proc.prep.exit_code = 0)
    => LET n == Len(proc.prep.processed_data)
           k == CHOOSE k \in 0..n : 10 * k <= 9 * n /\ 9 * n < 10 * (k + 1)
       IN  /\ exists(fs, train_file) /\ exists(fs, validation_file)
           /\ Len(fs[train_file].lines) = k
           /\ Len(fs[validation_file].lines) = n - k
           /\ \A item \in 1..n :
                 Occurrences(fs, train_file, item)
                     + Occurrences(fs, validation_file, item) = 1

\* eleven items split nine to two, over files left by an earlier run
C30_Witness ==
    /\ proc.prep.pc = "exit" /\ proc.prep.exit_code = 0
    /\ Len(proc.prep.processed_data) = 11
    /\ Len(fs[train_file].lines) = 9
    /\ Len(fs[validation_file].lines) = 2
    /\ proc.prep.processed_data[1] # 1

\* no item at all: both files are written, empty
C30_WitnessEmpty ==
    /\ proc.prep.pc = "exit" /\ proc.prep.exit_code = 0
    /\ proc.prep.processed_data = <<>>
    /\ fs[train_file] = File(<<>>) /\ fs[validation_file] = File(<<>>)
====
